---- MODULE Spec2Model ----
(***************************************************************************)
(* A model of shift_tiles.py: snapping a small raster tile to a bigger     *)
(* reference raster.                                                       *)
(*                                                                         *)
(* Rasters are byte rasters (numpy uint8): a 2-D array is a tuple of rows, *)
(* each row a tuple of values in 0..255.  A geotransform is the 6-tuple    *)
(* (c0, c1, c2, c3, c4, c5) of GDAL, here gt[1]..gt[6], with integer       *)
(* coefficients; the inverse map is kept as an exact fraction, so that     *)
(* floor() and a zero denominator are what the code sees.                  *)
(***************************************************************************)
EXTENDS Integers, Sequences, FiniteSets, TLC

VARIABLES
    refband,   \* the reference band's pixels
    refgt,     \* the reference raster's geotransform
    outa,      \* the pixels of the tile (outfile, band 1)
    outgt,     \* the tile's geotransform
    skip,      \* <<skipw, skipn, skipe, skips>> of a direct calc_shift_skip call
    pc,        \* position in shift() / calc_shift()
    calls,     \* the calc_shift_skip calls made so far, in order
    ret,       \* what calc_shift / calc_shift_skip returned or raised
    newfile    \* the raster stored at newfile, or NoFile

vars == <<refband, refgt, outa, outgt, skip, pc, calls, ret, newfile>>

----------------------------------------------------------------------------
(* Constants of the program *)

W == 1
N == 2
E == 4
S == 8

NoData == 255

\* numpy uint8 arithmetic is modulo 2^8
Byte == 256

----------------------------------------------------------------------------
(* Arrays *)

NRows(a) == Len(a)
NCols(a) == Len(a[1])

\* a[r0:r1, c0:c1] with 0 <= r0 < r1 <= nrows and 0 <= c0 < c1 <= ncols
Slice(a, r0, r1, c0, c1) ==
    [i \in 1..(r1 - r0) |-> [j \in 1..(c1 - c0) |-> a[r0 + i][c0 + j]]]

\* band.ReadAsArray(xoff, yoff, xsize, ysize): GDAL refuses a window that is
\* not inside the band ("Access window out of range") and returns None
NoArray == <<>>

ReadAsArray(band, xoff, yoff, xsize, ysize) ==
    IF \/ xoff < 0
       \/ yoff < 0
       \/ xoff + xsize > NCols(band)
       \/ yoff + ysize > NRows(band)
    THEN NoArray
    ELSE Slice(band, yoff, yoff + ysize, xoff, xoff + xsize)

RECURSIVE SumSeq(_)
SumSeq(s) == IF s = <<>> THEN 0 ELSE Head(s) + SumSeq(Tail(s))

\* np.sum of a 2-D array (accumulated in 64 bits, which never overflow here)
npsum(a) == SumSeq([i \in 1..NRows(a) |-> SumSeq(a[i])])

----------------------------------------------------------------------------
(* Coordinate transform *)

calc_xy(gt, col, row) ==
    << gt[1] + col * gt[2] + row * gt[3],
       gt[4] + col * gt[5] + row * gt[6] >>

\* the two quotients, not yet divided: a zero den is numpy's inf (num # 0)
\* or nan (num = 0), which the division yields with no more than a warning
calc_colrow(gt, x, y) ==
    << [num |-> x * gt[6] - y * gt[3] - gt[1] * gt[6] + gt[3] * gt[4],
        den |-> gt[2] * gt[6] - gt[3] * gt[5]],
       [num |-> x * gt[5] - y * gt[2] - gt[1] * gt[5] + gt[2] * gt[4],
        den |-> gt[3] * gt[5] - gt[2] * gt[6]] >>

\* np.floor of a finite quotient
npfloor(q) ==
    IF q.den > 0 THEN q.num \div q.den ELSE (0 - q.num) \div (0 - q.den)

----------------------------------------------------------------------------
(* Results *)

NoShift == <<0, 0>>
NoOverlap == 0 - 1

\* calc_shift_skip: an array (dx, dy), None, or an exception leaving the call
Found(s)   == [kind |-> "shift", shift |-> s, overlap |-> NoOverlap, error |-> ""]
None       == [kind |-> "none", shift |-> NoShift, overlap |-> NoOverlap, error |-> ""]
Raise(e)   == [kind |-> "raise", shift |-> NoShift, overlap |-> NoOverlap, error |-> e]

\* calc_shift: (shift, overlap) or (None, None)
Pair(s, m) == [kind |-> "shift", shift |-> s, overlap |-> m, error |-> ""]

----------------------------------------------------------------------------
(* Single-margin test *)

\* diffs with the no-data pixels taking part
diffs_Unmasked(a, refouta) ==
    [i \in 1..NRows(a) |-> [j \in 1..NCols(a) |->
        (a[i][j] - 1 - refouta[i][j]) % Byte]]

\* outa - 1 - refouta in uint8, 0 where outa is 255
diffs(a, refouta) ==
    [i \in 1..NRows(a) |-> [j \in 1..NCols(a) |->
        IF a[i][j] < NoData
        THEN (a[i][j] - 1 - refouta[i][j]) % Byte
        ELSE 0]]

\* diffsum without the one-unit offset between tile and reference
diffsum_NoOffset(a, refouta) ==
    npsum([i \in 1..NRows(a) |-> [j \in 1..NCols(a) |->
        IF a[i][j] < NoData THEN (a[i][j] - refouta[i][j]) % Byte ELSE 0]])

diffsum(a, refouta) == npsum(diffs(a, refouta))

\* candidates with the row offset in the outer loop
RECURSIVE candidates_RowOuter(_, _, _, _, _, _, _)
candidates_RowOuter(band, gt, a, outnwxy, outnwcrf, coff, roff) ==
    IF roff >= 2 THEN None
    ELSE
    LET c == outnwcrf[1] + coff
        r == outnwcrf[2] + roff
        refouta == ReadAsArray(band, c, r, NCols(a), NRows(a))
    IN  IF refouta = NoArray
        THEN Raise("TypeError")
        ELSE IF npsum(diffs(a, refouta)) = 0
        THEN LET refcrxy == calc_xy(gt, c, r)
             IN  Found(<<refcrxy[1] - outnwxy[1], refcrxy[2] - outnwxy[2]>>)
        ELSE IF coff + 1 < 2
        THEN candidates_RowOuter(band, gt, a, outnwxy, outnwcrf, coff + 1, roff)
        ELSE candidates_RowOuter(band, gt, a, outnwxy, outnwcrf, 0, roff + 1)

\* the two nested loops over coff and roff, from (coff, roff) on
RECURSIVE candidates(_, _, _, _, _, _, _)
candidates(band, gt, a, outnwxy, outnwcrf, coff, roff) ==
    IF coff >= 2 THEN None
    ELSE
    LET c == outnwcrf[1] + coff
        r == outnwcrf[2] + roff
        refouta == ReadAsArray(band, c, r, NCols(a), NRows(a))
    IN  IF refouta = NoArray
        THEN Raise("TypeError")
        ELSE IF diffsum(a, refouta) = 0
        THEN LET refcrxy == calc_xy(gt, c, r)
             IN  Found(<<refcrxy[1] - outnwxy[1], refcrxy[2] - outnwxy[2]>>)
        ELSE IF roff + 1 < 2
        THEN candidates(band, gt, a, outnwxy, outnwcrf, coff, roff + 1)
        ELSE candidates(band, gt, a, outnwxy, outnwcrf, coff + 1, 0)

\* int(x) of a numpy float: inf and nan cannot be converted
IntError(q) == IF q.num = 0 THEN "ValueError" ELSE "OverflowError"

calc_shift_skip(band, gt, a0, ogt, skipw, skipn, skipe, skips) ==
    LET a == IF skipw + skipn + skipe + skips # 0
             THEN Slice(a0, skipn, NRows(a0) - skips, skipw, NCols(a0) - skipe)
             ELSE a0
        outnwxy == calc_xy(ogt, skipw, skipn)
        outnwcr == calc_colrow(gt, outnwxy[1], outnwxy[2])
    IN  IF outnwcr[1].den = 0 THEN Raise(IntError(outnwcr[1]))
        ELSE IF outnwcr[2].den = 0 THEN Raise(IntError(outnwcr[2]))
        ELSE candidates(band, gt, a, outnwxy,
                        <<npfloor(outnwcr[1]), npfloor(outnwcr[2])>>, 0, 0)

----------------------------------------------------------------------------
(* Multi-margin orchestration: calc_shift, one action per trial *)

skipwe == NCols(outa) \div 3
skipns == NRows(outa) \div 3

\* a keyword argument that is not given keeps its default, 0
Kw(kw, name, v) == IF name \in kw THEN v ELSE 0

\* shift = calc_shift_skip(refband, refgt, outa, outgt, <kw>);
\* if shift is not None: return shift, mask
Trial(kw, mask, next) ==
    /\ LET shift == calc_shift_skip(refband, refgt, outa, outgt,
                                    Kw(kw, "skipw", skipwe), Kw(kw, "skipn", skipns),
                                    Kw(kw, "skipe", skipwe), Kw(kw, "skips", skipns))
       IN  /\ calls' = Append(calls, kw)
           /\ IF shift.kind = "raise"
              THEN pc' = "raised" /\ ret' = shift
              ELSE IF shift.kind # "none"
              THEN pc' = "returned" /\ ret' = Pair(shift.shift, mask)
              ELSE pc' = next /\ UNCHANGED ret
    /\ UNCHANGED <<refband, refgt, outa, outgt, skip, newfile>>

\* TestWhole going on with the two-edge trials
TestWhole_SkipSingles ==
    /\ pc = "calc_shift"
    /\ Trial({}, 0, "test_wn")

TestWhole ==
    /\ pc = "calc_shift"
    /\ Trial({}, 0, "test_w")

TestWest ==
    /\ pc = "test_w"
    /\ Trial({"skipw"}, W, "test_n")

TestNorth ==
    /\ pc = "test_n"
    /\ Trial({"skipn"}, N, "test_e")

TestEast ==
    /\ pc = "test_e"
    /\ Trial({"skipe"}, E, "test_s")

TestSouth ==
    /\ pc = "test_s"
    /\ Trial({"skips"}, S, "test_wn")

TestWestNorth ==
    /\ pc = "test_wn"
    /\ Trial({"skipw", "skipn"}, W + N, "test_we")

TestWestEast ==
    /\ pc = "test_we"
    /\ Trial({"skipw", "skipe"}, W + E, "test_ws")

\* TestWestSouth with the arguments and mask of the north, east trial
TestWestSouth_AsNorthEast ==
    /\ pc = "test_ws"
    /\ Trial({"skipn", "skipe"}, N + E, "test_ne")

TestWestSouth ==
    /\ pc = "test_ws"
    /\ Trial({"skipw", "skips"}, W + S, "test_ne")

TestNorthEast ==
    /\ pc = "test_ne"
    /\ Trial({"skipn", "skipe"}, N + E, "test_ns")

TestNorthSouth ==
    /\ pc = "test_ns"
    /\ Trial({"skipn", "skips"}, N + S, "test_es")

TestEastSouth ==
    /\ pc = "test_es"
    /\ Trial({"skipe", "skips"}, E + S, "test_wne")

TestWestNorthEast ==
    /\ pc = "test_wne"
    /\ Trial({"skipw", "skipn", "skipe"}, W + N + E, "test_wns")

TestWestNorthSouth ==
    /\ pc = "test_wns"
    /\ Trial({"skipw", "skipn", "skips"}, W + N + S, "test_wes")

TestWestEastSouth ==
    /\ pc = "test_wes"
    /\ Trial({"skipw", "skipe", "skips"}, W + E + S, "test_nes")

TestNorthEastSouth ==
    /\ pc = "test_nes"
    /\ Trial({"skipn", "skipe", "skips"}, N + E + S, "test_all")

TestAll ==
    /\ pc = "test_all"
    /\ Trial({"skipw", "skipn", "skipe", "skips"}, W + N + E + S, "failed")

\* failed to calculate shift: return None, None
FailedToCalculate ==
    /\ pc = "failed"
    /\ pc' = "returned"
    /\ ret' = None
    /\ UNCHANGED <<refband, refgt, outa, outgt, skip, calls, newfile>>

----------------------------------------------------------------------------
(* shift(): what follows the call of calc_shift *)

NoFile == [exists |-> FALSE, gt |-> <<>>, xsize |-> 0, ysize |-> 0,
           data |-> <<>>, nodata |-> "", projection |-> ""]

\* a raster left at newfile by somebody else
StaleFile == [exists |-> TRUE, gt |-> <<0, 1, 0, 0, 0, -1>>, xsize |-> 1, ysize |-> 1,
              data |-> <<<<0>>>>, nodata |-> "", projection |-> ""]

\* if shift is None: print('Failed to shift'); return
PrintFailed ==
    /\ pc = "returned"
    /\ ret.kind = "none"
    /\ pc' = "done"
    /\ UNCHANGED <<refband, refgt, outa, outgt, skip, calls, ret, newfile>>

\* CreateNew without the return on a failed search
CreateNew_Unguarded ==
    /\ pc = "returned"
    /\ newfile' = [exists |-> TRUE,
                   gt |-> [outgt EXCEPT ![1] = @ + ret.shift[1],
                                        ![4] = @ + ret.shift[2]],
                   xsize |-> NCols(outa),
                   ysize |-> NRows(outa),
                   data |-> outa,
                   nodata |-> "outband.GetNoDataValue()",
                   projection |-> "outrast.GetProjection()"]
    /\ pc' = "done"
    /\ UNCHANGED <<refband, refgt, outa, outgt, skip, calls, ret>>

\* the new raster: the tile's pixels, no-data value and projection under the
\* tile's geotransform moved by the shift
CreateNew ==
    /\ pc = "returned"
    /\ ret.kind # "none"
    /\ newfile' = [exists |-> TRUE,
                   gt |-> [outgt EXCEPT ![1] = @ + ret.shift[1],
                                        ![4] = @ + ret.shift[2]],
                   xsize |-> NCols(outa),
                   ysize |-> NRows(outa),
                   data |-> outa,
                   nodata |-> "outband.GetNoDataValue()",
                   projection |-> "outrast.GetProjection()"]
    /\ pc' = "done"
    /\ UNCHANGED <<refband, refgt, outa, outgt, skip, calls, ret>>

----------------------------------------------------------------------------
(* A direct call of calc_shift_skip with the margins in skip *)

CallSkip ==
    /\ pc = "calc_shift_skip"
    /\ ret' = calc_shift_skip(refband, refgt, outa, outgt,
                              skip[1], skip[2], skip[3], skip[4])
    /\ pc' = "skip_returned"
    /\ UNCHANGED <<refband, refgt, outa, outgt, skip, calls, newfile>>

----------------------------------------------------------------------------
(* Inputs *)

\* the reference is RefRows x RefCols, the tile TileRows x TileCols
RefRows == 4
RefCols == 4
TileRows == 3
TileCols == 3

\* the tile's origin lies at -1..MaxOrigin half pixels from the reference's
MaxOrigin == 2

\* north-up with 2-unit pixels; the same with the axes exchanged; two
\* transforms whose determinant c1*c5 - c2*c4 is zero
NorthUp == <<0, 2, 0, 0, 0, -2>>

RefTransforms ==
    {NorthUp, <<0, 0, 2, 0, -2, 0>>, <<0, 2, 0, 0, 0, 0>>, <<0, 2, 2, 0, 1, 1>>}

OutTransforms ==
    {<<px, 2, 0, 0 - py, 0, -2>> : px \in -1..MaxOrigin, py \in -1..MaxOrigin}

\* references of zeros with at most one row or one column of ones
StripedBand(row, col) ==
    [i \in 1..RefRows |-> [j \in 1..RefCols |->
        IF i = row \/ j = col THEN 1 ELSE 0]]

StripedBands ==
    {StripedBand(row, 0) : row \in 0..RefRows} \cup
    {StripedBand(0, col) : col \in 1..RefCols}

\* tiles of ones whose edges in x (each a third of the tile wide), and whose
\* centre if asked, are overwritten with twos
EdgeTile(x, centre) ==
    LET we == TileCols \div 3
        ns == TileRows \div 3
    IN  [i \in 1..TileRows |-> [j \in 1..TileCols |->
            LET w == j <= we
                n == i <= ns
                e == j > TileCols - we
                s == i > TileRows - ns
            IN  IF \/ (w /\ W \in x) \/ (n /\ N \in x)
                   \/ (e /\ E \in x) \/ (s /\ S \in x)
                   \/ (centre /\ ~(w \/ n \/ e \/ s))
                THEN 2 ELSE 1]]

EdgeTiles == {EdgeTile(x, centre) : x \in SUBSET {W, N, E, S}, centre \in BOOLEAN}

\* every 3 x 3 tile of ones and twos, and the 4 x 4 references of zeros and
\* ones that are constant along the rows or along the columns
SmallTiles == [1..3 -> [1..3 -> {1, 2}]]

LinedBands ==
    {[i \in 1..4 |-> [j \in 1..4 |-> p[i]]] : p \in [1..4 -> {0, 1}]} \cup
    {[i \in 1..4 |-> [j \in 1..4 |-> p[j]]] : p \in [1..4 -> {0, 1}]}

\* byte-valued strips for calc_shift_skip alone: a tile of 1 x 2 pixels with
\* zeros and no-data, a reference of 2 x 3 pixels with 255s, and the margins
\* that leave the trimmed tile non-empty
ByteTiles == [1..1 -> [1..2 -> {0, 1, NoData}]]

ByteBands == [1..2 -> [1..3 -> {0, 255}]]

ByteSkips == {<<0, 0, 0, 0>>, <<1, 0, 0, 0>>, <<0, 0, 1, 0>>}

----------------------------------------------------------------------------
(* Specifications *)

Start(entry) ==
    /\ pc = entry
    /\ calls = <<>>
    /\ ret = None

\* shift() on edge-overwritten tiles anywhere around a striped reference
Init ==
    /\ refband \in StripedBands
    /\ refgt \in RefTransforms
    /\ outa \in EdgeTiles
    /\ outgt \in OutTransforms
    /\ skip = <<0, 0, 0, 0>>
    /\ newfile \in {NoFile, StaleFile}
    /\ Start("calc_shift")

\* shift() on every small tile laid on the origin of a lined reference
InitTiles ==
    /\ refband \in LinedBands
    /\ refgt = NorthUp
    /\ outa \in SmallTiles
    /\ outgt = NorthUp
    /\ skip = <<0, 0, 0, 0>>
    /\ newfile = NoFile
    /\ Start("calc_shift")

\* calc_shift_skip on byte strips
InitSkip ==
    /\ refband \in ByteBands
    /\ refgt \in RefTransforms
    /\ outa \in ByteTiles
    /\ outgt \in OutTransforms
    /\ skip \in ByteSkips
    /\ newfile = NoFile
    /\ Start("calc_shift_skip")

Next ==
    \/ TestWhole
    \/ TestWest
    \/ TestNorth
    \/ TestEast
    \/ TestSouth
    \/ TestWestNorth
    \/ TestWestEast
    \/ TestWestSouth
    \/ TestNorthEast
    \/ TestNorthSouth
    \/ TestEastSouth
    \/ TestWestNorthEast
    \/ TestWestNorthSouth
    \/ TestWestEastSouth
    \/ TestNorthEastSouth
    \/ TestAll
    \/ FailedToCalculate
    \/ PrintFailed
    \/ CreateNew

NextSkip == CallSkip

Spec == Init /\ [][Next]_vars

SpecTiles == InitTiles /\ [][Next]_vars

SpecSkip == InitSkip /\ [][NextSkip]_vars

----------------------------------------------------------------------------
(* Vocabulary of the properties *)

AllKw == {"skipw", "skipn", "skipe", "skips"}

\* the margins a set of excluded edges stands for
MarginOf(kw) ==
    <<Kw(kw, "skipw", skipwe), Kw(kw, "skipn", skipns),
      Kw(kw, "skipe", skipwe), Kw(kw, "skips", skipns)>>

\* the OverlapMask of a set of excluded edges
MaskOf(kw) ==
    Kw(kw, "skipw", W) + Kw(kw, "skipn", N) + Kw(kw, "skipe", E) + Kw(kw, "skips", S)

\* what the single-margin test answers for the margins m
Outcome(m) == calc_shift_skip(refband, refgt, outa, outgt, m[1], m[2], m[3], m[4])

Returned == pc \in {"returned", "done"}

Ended == pc \in {"returned", "done", "raised"}

Degenerate(gt) == gt[2] * gt[6] - gt[3] * gt[5] = 0

\* the tile trimmed by the margins m
Trimmed(m) == Slice(outa, m[2], NRows(outa) - m[4], m[1], NCols(outa) - m[3])

\* the trimmed tile's north-west corner in the reference grid, as fractions
Corner(m) ==
    LET xy == calc_xy(outgt, m[1], m[2]) IN calc_colrow(refgt, xy[1], xy[2])

\* n is the floor of the fraction q: n <= q < n + 1
IsFloor(n, q) ==
    IF q.den > 0
    THEN n * q.den <= q.num /\ q.num < (n + 1) * q.den
    ELSE n * q.den >= q.num /\ q.num > (n + 1) * q.den

\* the corners of the inputs lie within Reach cells of the reference's origin
Reach == TileRows + TileCols + MaxOrigin

FloorOf(q) == CHOOSE n \in (0 - Reach)..Reach : IsFloor(n, q)

\* the four candidate offsets (dc, dr) in the order of the visit
CandidateOrder == <<<<0, 0>>, <<0, 1>>, <<1, 0>>, <<1, 1>>>>

\* the k-th candidate origin (column, row) for the margins m
Origin(m, k) ==
    <<FloorOf(Corner(m)[1]) + CandidateOrder[k][1],
      FloorOf(Corner(m)[2]) + CandidateOrder[k][2]>>

\* the window of the trimmed tile's shape at the k-th candidate lies in the band
InBand(band, m, k) ==
    /\ Origin(m, k)[1] >= 0
    /\ Origin(m, k)[2] >= 0
    /\ Origin(m, k)[1] + NCols(Trimmed(m)) <= NCols(band)
    /\ Origin(m, k)[2] + NRows(Trimmed(m)) <= NRows(band)

\* the reference pixel under pixel (i, j) of the trimmed tile at candidate k
Under(band, m, k, i, j) == band[Origin(m, k)[2] + i][Origin(m, k)[1] + j]

\* the accumulated sum of the k-th candidate is zero
Consistent(band, m, k) ==
    /\ InBand(band, m, k)
    /\ diffsum(Trimmed(m),
               [i \in 1..NRows(Trimmed(m)) |-> [j \in 1..NCols(Trimmed(m)) |->
                   Under(band, m, k, i, j)]]) = 0

\* every pixel below 255 of the trimmed tile is the reference pixel plus one
PixelsMatch(band, m, k) ==
    /\ InBand(band, m, k)
    /\ \A i \in 1..NRows(Trimmed(m)) : \A j \in 1..NCols(Trimmed(m)) :
          Trimmed(m)[i][j] < NoData => Trimmed(m)[i][j] = Under(band, m, k, i, j) + 1

\* toGeo(referenceTransform, c + dc, r + dr) - toGeo(outputTransform, west, north)
ShiftAt(m, k) ==
    LET to == calc_xy(refgt, Origin(m, k)[1], Origin(m, k)[2])
        from == calc_xy(outgt, m[1], m[2])
    IN  <<to[1] - from[1], to[2] - from[2]>>

----------------------------------------------------------------------------
(* C1: order of the trials *)

Range(f) == {f[i] : i \in DOMAIN f}

\* C1: calc_shift tries the whole tile first and then the edge subsets by
\* growing number of excluded edges, no subset twice, going on only after a
\* trial that answered None; what it returns is the shift of the last trial
\* made with the mask of that trial, so mask 0 when the whole tile matches and
\* a mask of k edges only after the whole tile and every subset of fewer
\* edges were tried and answered None; with the whole tile failing and the
\* west margin alone succeeding it returns WEST.
C1_FirstSuccessWins ==
    /\ calls # <<>> => calls[1] = {}
    /\ \A i \in 1..(Len(calls) - 1) :
          /\ Cardinality(calls[i]) <= Cardinality(calls[i + 1])
          /\ Outcome(MarginOf(calls[i])).kind = "none"
    /\ \A i, j \in DOMAIN calls : i < j => calls[i] # calls[j]
    /\ (Returned /\ ret.kind = "shift") =>
          LET last == calls[Len(calls)]
          IN  /\ ret.overlap = MaskOf(last)
              /\ Outcome(MarginOf(last)) = Found(ret.shift)
              /\ \A kw \in SUBSET AllKw :
                    Cardinality(kw) < Cardinality(last) => kw \in Range(calls)
    /\ (Ended /\ Outcome(MarginOf({})).kind = "shift") =>
          /\ Returned
          /\ ret.overlap = 0
    /\ (Ended /\ Outcome(MarginOf({})).kind = "none"
              /\ Outcome(MarginOf({"skipw"})).kind = "shift") =>
          /\ Returned
          /\ ret = Pair(Outcome(MarginOf({"skipw"})).shift, W)

\* the whole tile fails, west alone and west+north both succeed, WEST is returned
C1_Witness ==
    /\ pc = "done"
    /\ Outcome(MarginOf({})).kind = "none"
    /\ Outcome(MarginOf({"skipw"})).kind = "shift"
    /\ Outcome(MarginOf({"skipw", "skipn"})).kind = "shift"
    /\ ret.overlap = W

----------------------------------------------------------------------------
(* C2: the trials as a loop over masks *)

HasEdge(mask, edge) == (mask \div edge) % 2 = 1

BitCount(mask) == Cardinality({edge \in {W, N, E, S} : HasEdge(mask, edge)})

\* the margin tuple of a mask, by skipWE and skipNS
MarginOfMask(mask) ==
    <<IF HasEdge(mask, W) THEN skipwe ELSE 0, IF HasEdge(mask, N) THEN skipns ELSE 0,
      IF HasEdge(mask, E) THEN skipwe ELSE 0, IF HasEdge(mask, S) THEN skipns ELSE 0>>

\* by bit-count, then by the number the mask is
NumericBefore(x, y) ==
    \/ BitCount(x) < BitCount(y)
    \/ BitCount(x) = BitCount(y) /\ x < y

\* by bit-count, then edge by edge in the order W, N, E, S: of two masks of
\* one bit-count the first is the one holding the first edge they differ in
EdgeBefore(x, y) ==
    \/ BitCount(x) < BitCount(y)
    \/ /\ BitCount(x) = BitCount(y)
       /\ \E edge \in {W, N, E, S} :
             /\ HasEdge(x, edge)
             /\ ~HasEdge(y, edge)
             /\ \A lower \in {W, N, E, S} :
                   lower < edge => (HasEdge(x, lower) <=> HasEdge(y, lower))

\* the 15 non-empty masks as the list a relation orders them in
Ordered(Before(_, _)) ==
    [i \in 1..15 |->
        CHOOSE m \in 1..15 : Cardinality({x \in 1..15 : Before(x, m)}) = i - 1]

NumericOrder == Ordered(NumericBefore)

EdgeOrder == Ordered(EdgeBefore)

\* the single-margin test on each mask of the list from the i-th on, until
\* one succeeds or the list is exhausted
RECURSIVE LoopFrom(_, _)
LoopFrom(order, i) ==
    IF i > Len(order) THEN None
    ELSE LET shift == Outcome(MarginOfMask(order[i]))
         IN  IF shift.kind = "raise" THEN shift
             ELSE IF shift.kind = "shift" THEN Pair(shift.shift, order[i])
             ELSE LoopFrom(order, i + 1)

\* the whole tile first, then the loop
LoopShift(order) == LoopFrom(<<0>> \o order, 1)

\* C2 as claimed: the loop over the masks by bit-count and then by number
\* returns what calc_shift returns
C2_NumericLoopAgrees ==
    Ended => ret = LoopShift(NumericOrder)

\* C2 as it holds: the loop over the masks by bit-count and then edge by edge
\* (W, N, E, S), that is 1, 2, 4, 8, 3, 5, 9, 6, 10, 12, 7, 11, 13, 14, 15,
\* returns what calc_shift returns
C2_EdgeLoopAgrees ==
    /\ EdgeOrder = <<1, 2, 4, 8, 3, 5, 9, 6, 10, 12, 7, 11, 13, 14, 15>>
    /\ Ended => ret = LoopShift(EdgeOrder)

\* calc_shift returns west+south where north+east would succeed as well
C2_Witness ==
    /\ pc = "returned"
    /\ ret.overlap = W + S
    /\ Outcome(MarginOfMask(N + E)).kind = "shift"
    /\ Outcome(MarginOfMask(N + E)).shift # ret.shift

----------------------------------------------------------------------------
(* C3, C4, C5: failures *)

Candidates == DOMAIN CandidateOrder

\* no candidate of the whole tile or of any of the 15 margin subsets is consistent
NoAlignment ==
    /\ ~Degenerate(refgt)
    /\ \A kw \in SUBSET AllKw : \A k \in Candidates :
          ~Consistent(refband, MarginOf(kw), k)

\* C3: when no margin subset has a consistent candidate, calc_shift ends by
\* returning (None, None) after all 16 trials, and no trial raises
C3_Exhaustion ==
    (Ended /\ NoAlignment) =>
        /\ pc # "raised"
        /\ ret = None
        /\ Range(calls) = SUBSET AllKw

\* the part of C3 that the code keeps: (None, None) is returned only after
\* every one of the 16 trials was made and answered None
C3_NoMatchOnlyAfterAll ==
    (Returned /\ ret = None) =>
        /\ Range(calls) = SUBSET AllKw
        /\ \A kw \in SUBSET AllKw : Outcome(MarginOf(kw)) = None

\* C4: a window that leaves the reference band makes its candidate fail and
\* nothing more: no exception leaves calc_shift_skip or calc_shift
C4_ReadFailureIsCandidateFailure ==
    ~Degenerate(refgt) => pc # "raised"

\* C5: calc_colrow yields no quotient by zero for a degenerate reference
\* transform, and the search reports the transform, as an outcome of its own
C5_DegenerateRejected ==
    (Degenerate(refgt) /\ pc # "calc_shift") =>
        /\ \A q \in Range(Corner(MarginOf({}))) : q.den # 0
        /\ pc = "raised"
        /\ ret.error = "DegenerateTransform"

\* what the code does with one: the quotients of calc_colrow have a zero
\* denominator (inf or nan), and int() of them raises in the first trial
C5_DegenerateCrashes ==
    (Degenerate(refgt) /\ pc # "calc_shift") =>
        /\ Corner(MarginOf({}))[1].den = 0
        /\ Corner(MarginOf({}))[2].den = 0
        /\ pc = "raised"
        /\ ret.error \in {"OverflowError", "ValueError"}
        /\ calls = <<{}>>

----------------------------------------------------------------------------
(* C6: zero-shift identity *)

Whole == <<0, 0, 0, 0>>

\* the tile's origin is a cell of the reference grid, the window of the
\* tile's shape at that cell lies in the reference, and every pixel of the
\* tile is the reference pixel under it plus one
AlignedIdentical ==
    /\ ~Degenerate(refgt)
    /\ \A q \in Range(Corner(Whole)) : q.num = FloorOf(q) * q.den
    /\ InBand(refband, Whole, 1)
    /\ \A i \in 1..NRows(outa) : \A j \in 1..NCols(outa) :
          outa[i][j] = Under(refband, Whole, 1, i, j) + 1

\* C6: a tile that is the reference window at its own location plus one, on
\* a whole cell of the reference grid, gets shift (0, 0) and overlap 0
C6_ZeroShiftIdentity ==
    (AlignedIdentical /\ pc # "calc_shift") =>
        /\ Returned
        /\ ret = Pair(<<0, 0>>, 0)

\* such a tile, not a uniform one and away from the reference's origin
C6_Witness ==
    /\ pc = "done"
    /\ AlignedIdentical
    /\ outa[1][1] # outa[2][2]
    /\ FloorOf(Corner(Whole)[1]) > 0
    /\ ret = Pair(<<0, 0>>, 0)

----------------------------------------------------------------------------
(* C8: the new raster *)

Written == pc = "done" /\ ret.kind = "shift"

\* C8: shift() writes newfile exactly when calc_shift returned a shift: the
\* raster then at newfile has the tile's size and pixels and the tile's
\* geotransform with the shift added to c0 and c3 and nothing else changed;
\* in every other case what was at newfile, a raster or nothing, is as it was
C8_NewRasterIffFound ==
    /\ [](/\ Written =>
                /\ newfile.exists
                /\ newfile.gt = <<outgt[1] + ret.shift[1], outgt[2], outgt[3],
                                  outgt[4] + ret.shift[2], outgt[5], outgt[6]>>
                /\ newfile.data = outa
                /\ newfile.xsize = NCols(outa)
                /\ newfile.ysize = NRows(outa)
          /\ ~Written => newfile \in {NoFile, StaleFile})
    /\ [][newfile' # newfile => Written']_vars

\* a raster was written with a shift that moves both coordinates
C8_Witness ==
    /\ pc = "done"
    /\ newfile.exists
    /\ ret.shift[1] # 0
    /\ ret.shift[2] # 0
    /\ newfile.gt # outgt

\* the search failed and shift() ended with the old raster still at newfile
C8_WitnessFailed ==
    /\ pc = "done"
    /\ ret = None
    /\ newfile = StaleFile

----------------------------------------------------------------------------
(* C7, C9, C10: the single-margin test, called with the margins in skip *)

SkipReturned == pc = "skip_returned"

\* the window of the reference read for the k-th candidate
Window(band, m, k) ==
    [i \in 1..NRows(Trimmed(m)) |-> [j \in 1..NCols(Trimmed(m)) |->
        Under(band, m, k, i, j)]]

\* pixel (i, j) of the reference lies under a pixel below 255 of the trimmed
\* tile at one of the candidates
Compared(m, i, j) ==
    /\ ~Degenerate(refgt)
    /\ \E k \in Candidates :
          LET ti == i - Origin(m, k)[2]
              tj == j - Origin(m, k)[1]
          IN  /\ ti \in 1..NRows(Trimmed(m))
              /\ tj \in 1..NCols(Trimmed(m))
              /\ Trimmed(m)[ti][tj] < NoData

ByteSamples == {0, 1, 254, 255}

\* C7: the pixels of the trimmed tile that are 255 take no part in the test:
\* the sum of a candidate is the same whatever the reference holds under
\* them, calc_shift_skip answers the same when a reference pixel that lies
\* under no pixel below 255 is changed, and it reports a match when at some
\* candidate, the earlier ones readable, all pixels below 255 are the
\* reference plus one
C7_NoDataExclusion ==
    SkipReturned =>
        /\ \A i \in 1..NRows(refband) : \A j \in 1..NCols(refband) :
              ~Compared(skip, i, j) =>
                  \A v \in ByteSamples :
                      calc_shift_skip([refband EXCEPT ![i][j] = v], refgt, outa, outgt,
                                      skip[1], skip[2], skip[3], skip[4]) = ret
        /\ ~Degenerate(refgt) =>
              \A k \in Candidates :
                  /\ InBand(refband, skip, k) =>
                        \A i \in 1..NRows(Trimmed(skip)) :
                        \A j \in 1..NCols(Trimmed(skip)) :
                            Trimmed(skip)[i][j] = NoData =>
                                \A v \in ByteSamples :
                                    diffsum(Trimmed(skip),
                                            [Window(refband, skip, k) EXCEPT ![i][j] = v])
                                        = diffsum(Trimmed(skip), Window(refband, skip, k))
                  /\ (/\ PixelsMatch(refband, skip, k)
                      /\ \A e \in 1..(k - 1) : InBand(refband, skip, e)) =>
                        ret.kind = "shift"

\* a match of a tile with a pixel below 255 and a 255 which lies on a
\* reference pixel that would not match it
C7_Witness ==
    /\ SkipReturned
    /\ skip = Whole
    /\ ret.kind = "shift"
    /\ outa[1][1] = NoData
    /\ outa[1][2] = 1
    /\ PixelsMatch(refband, skip, 1)
    /\ Under(refband, skip, 1, 1, 1) # NoData - 1
    /\ ~Compared(skip, Origin(skip, 1)[2] + 1, Origin(skip, 1)[1] + 1)

\* the first candidate in the order of the visit that is consistent, the
\* earlier ones being readable and inconsistent
FirstConsistent(m, k) ==
    /\ Consistent(refband, m, k)
    /\ \A e \in 1..(k - 1) : InBand(refband, m, e) /\ ~Consistent(refband, m, e)

\* C9: calc_shift_skip takes the candidates (c + dc, r + dr), (c, r) the
\* floor of the trimmed tile's corner in the reference grid, in the order
\* (0,0), (0,1), (1,0), (1,1), and returns for the first consistent one
\* toGeo(refgt, c + dc, r + dr) - toGeo(outgt, west, north); it returns None
\* only when all four are inconsistent
C9_FirstCandidateWins ==
    (SkipReturned /\ ~Degenerate(refgt)) =>
        /\ ret.kind = "shift" =>
              \E k \in Candidates : FirstConsistent(skip, k) /\ ret.shift = ShiftAt(skip, k)
        /\ \A k \in Candidates :
              FirstConsistent(skip, k) => ret = Found(ShiftAt(skip, k))
        /\ ret.kind = "none" =>
              \A k \in Candidates :
                  InBand(refband, skip, k) /\ ~Consistent(refband, skip, k)

\* the third candidate, (1, 0), is returned although the fourth is consistent
\* too, from a corner that is not on a whole cell, with a west margin
C9_Witness ==
    /\ SkipReturned
    /\ ~Degenerate(refgt)
    /\ skip[1] = 1
    /\ FirstConsistent(skip, 3)
    /\ Consistent(refband, skip, 4)
    /\ Corner(skip)[1].num # FloorOf(Corner(skip)[1]) * Corner(skip)[1].den
    /\ ret = Found(ShiftAt(skip, 3))
    /\ ShiftAt(skip, 3) # ShiftAt(skip, 4)

\* C10: at the candidate calc_shift_skip reports a match for, every pixel
\* below 255 of the trimmed tile is the reference pixel under it plus one
C10_MatchIsPixelwise ==
    (SkipReturned /\ ret.kind = "shift") =>
        \A k \in Candidates : FirstConsistent(skip, k) => PixelsMatch(refband, skip, k)

\* what holds of the byte sum: no two differences cancel, each is zero
\* modulo 256
C10_MatchIsPixelwiseModulo ==
    (SkipReturned /\ ret.kind = "shift") =>
        \A k \in Candidates : FirstConsistent(skip, k) =>
            \A i \in 1..NRows(Trimmed(skip)) : \A j \in 1..NCols(Trimmed(skip)) :
                Trimmed(skip)[i][j] < NoData =>
                    (Trimmed(skip)[i][j] - 1 - Under(refband, skip, k, i, j)) % Byte = 0

====
